---- MODULE Spec2Model ----
(***************************************************************************)
(* Token lifecycle and session consistency of the Firebase-auth Next.js    *)
(* application: the client-side AuthProvider (session mirror, refresh      *)
(* scheduler, signIn/signOut facade), the __session cookie, and the        *)
(* server-side guards (protected layout, /api/protected, /api/logout,      *)
(* getAuthenticatedUser) that verify the cookie.                           *)
(*                                                                         *)
(* The Firebase SDKs are external: the model follows their documented      *)
(* contracts.  Tokens are numbered in the order the identity provider      *)
(* mints them.  Every `await` of the source is a point where other         *)
(* handlers may run.                                                       *)
(***************************************************************************)
EXTENDS Integers, Sequences, FiniteSets, TLC

\* ---------------------------------------------------------------- bounds
MaxTok    == 3      \* identity assertions minted in one behaviour
MaxFetch  == 2      \* getIdToken calls in flight

\* ------------------------------------------------------------ vocabulary
Users  == {"alice"}
NoUser == "null"                       \* User | null
Providers == {"google", "github", "twitter"}

\* credential strings as seen by the server
Absent       == -1                     \* undefined: no cookie / no header
Empty        == 0                      \* the empty string ""
Malformed    == -2                     \* a string that is not a JWT
BadSignature == -3                     \* a JWT not signed by the provider
NoToken      == 0                      \* a fetch whose token is not known yet

SessionMaxAge == 604800                \* 60 * 60 * 24 * 7

VARIABLES
    tokens,      \* identity provider: minted assertions, tokens[t] = [uid, expired, revoked]
    authUser,    \* client SDK: auth.currentUser
    cached,      \* client SDK: cached[u] = token held by u's User object
    events,      \* client SDK: onIdTokenChanged notifications not yet delivered
    fetches,     \* getIdToken promises the AuthProvider is awaiting
    user,        \* AuthProvider state: user
    loading,     \* AuthProvider state: loading
    listeners,   \* AuthProvider: onAuthStateChange listeners registered (how many)
    intervals,   \* AuthProvider: refresh intervals registered (how many)
    jar,         \* browser: the stored __session cookie
    lastWrite,   \* browser: the last assignment to document.cookie
    nodeEnv,     \* process.env.NODE_ENV
    soPc,        \* facade signOut(): position of the call in flight
    siPc,        \* facade signIn*(): position of the call in flight
    rrPc,        \* mount effect: the handleRedirectResult() promise
    login,       \* SocialLoginButtons / LoginPage: the sign-in started from a button
    logout,      \* LogoutButton: the handleLogout call in flight
    hist,        \* the handler the step just taken ran (observation only)
    resp         \* server: the response of the step just taken, if it was a request

vars == <<tokens, authUser, cached, events, fetches, user, loading, listeners,
          intervals, jar, lastWrite, nodeEnv, login, logout, rrPc, soPc, siPc, hist, resp>>

clientVars == <<authUser, cached, events, fetches, user, loading, listeners,
                intervals, jar, lastWrite, nodeEnv, login, logout, rrPc, soPc, siPc>>

\* ----------------------------------------------------------- JavaScript
\* (mutant) a test for undefined only
FalsyUndefined(x) == x = Absent

\* `!x` for a value that is a string or undefined
Falsy(x) == x = Absent \/ x = Empty

\* a JavaScript value other than the credentials above: its type and, for a
\* string, its characters
JsString(str) == [type |-> "string", val |-> str]
JsUndefined == [type |-> "undefined", val |-> ""]
JsNull == [type |-> "null", val |-> ""]
JsFunction(name) == [type |-> "function", val |-> name]
JsObject(name) == [type |-> "object", val |-> name]

\* ToBoolean, as `||` applies it
Truthy(v) ==
    CASE v.type = "string" -> v.val # ""
      [] v.type \in {"function", "object"} -> TRUE
      [] OTHER -> FALSE

\* --------------------------------------------------- utils/errorMessages.ts
firebaseErrorMessages ==
    "auth/user-not-found" :> "No account found with this email address." @@
    "auth/wrong-password" :> "Incorrect password. Please try again." @@
    "auth/invalid-credential" :> "Invalid email or password." @@
    "auth/email-already-in-use" :> "An account with this email already exists." @@
    "auth/weak-password" :> "Password must be at least 6 characters long." @@
    "auth/invalid-email" :> "Please enter a valid email address." @@
    "auth/too-many-requests" :> "Too many failed attempts. Please try again later." @@
    "auth/user-disabled" :> "This account has been disabled." @@
    "auth/operation-not-allowed" :> "This sign-in method is not enabled." @@
    "auth/network-request-failed" :> "Network error. Please check your connection." @@
    "auth/popup-blocked" :> "Please allow popups to sign in." @@
    "auth/popup-closed-by-user" :> "Sign-in cancelled." @@
    "auth/account-exists-with-different-credential" :>
        "An account exists with this email using a different sign-in method." @@
    "auth/id-token-expired" :> "Your session has expired. Please sign in again." @@
    "auth/id-token-revoked" :> "Your session was revoked. Please sign in again."

FallbackMessage == "An unexpected error occurred. Please try again."

\* what an object literal inherits from Object.prototype
ObjectPrototype ==
    "constructor" :> JsFunction("Object") @@
    "toString" :> JsFunction("toString") @@
    "valueOf" :> JsFunction("valueOf") @@
    "hasOwnProperty" :> JsFunction("hasOwnProperty") @@
    "__proto__" :> JsObject("Object.prototype")

\* firebaseErrorMessages[errorCode]: an own property, else an inherited one,
\* else undefined
GetProperty(errorCode) ==
    IF errorCode \in DOMAIN firebaseErrorMessages
      THEN JsString(firebaseErrorMessages[errorCode])
    ELSE IF errorCode \in DOMAIN ObjectPrototype
      THEN ObjectPrototype[errorCode]
    ELSE JsUndefined

\* firebaseErrorMessages[errorCode] || 'An unexpected error occurred. ...'
getAuthErrorMessage(errorCode) ==
    LET m == GetProperty(errorCode)
    IN  IF Truthy(m) THEN m ELSE JsString(FallbackMessage)

\* ------------------------------------------------- firebase-admin (server)
Null == [ok |-> FALSE, uid |-> NoUser, email |-> NoUser]

Minted == 1..Len(tokens)

\* adminAuth.verifyIdToken(idToken, checkRevoked): the decoded claims, or the
\* error it throws
AdminVerifyIdToken(idToken, checkRevoked) ==
    IF idToken = Empty \/ idToken = Absent
      THEN [ok |-> FALSE, code |-> "auth/argument-error", uid |-> NoUser]
    ELSE IF idToken = Malformed
      THEN [ok |-> FALSE, code |-> "auth/argument-error", uid |-> NoUser]
    ELSE IF idToken = BadSignature \/ idToken \notin Minted
      THEN [ok |-> FALSE, code |-> "auth/invalid-id-token", uid |-> NoUser]
    ELSE IF tokens[idToken].expired
      THEN [ok |-> FALSE, code |-> "auth/id-token-expired", uid |-> NoUser]
    ELSE IF checkRevoked /\ tokens[idToken].revoked
      THEN [ok |-> FALSE, code |-> "auth/id-token-revoked", uid |-> NoUser]
    ELSE [ok |-> TRUE, code |-> "", uid |-> tokens[idToken].uid]

\* (mutant) a wrapper that logs the error and throws it again
verifyIdTokenRethrow(idToken) ==
    LET r == AdminVerifyIdToken(idToken, FALSE) IN
    IF r.ok
      THEN [decoded |-> [ok |-> TRUE, uid |-> r.uid, email |-> r.uid],
            logged |-> "", thrown |-> ""]
      ELSE [decoded |-> Null, logged |-> r.code, thrown |-> r.code]

\* lib/firebase/admin.ts verifyIdToken: claims, or null with the error logged;
\* thrown is the error the call rejects with, which its catch block never
\* hands on
verifyIdToken(idToken) ==
    LET r == AdminVerifyIdToken(idToken, FALSE) IN
    IF r.ok
      THEN [decoded |-> [ok |-> TRUE, uid |-> r.uid, email |-> r.uid],
            logged |-> "", thrown |-> ""]
      ELSE [decoded |-> Null, logged |-> r.code, thrown |-> ""]

\* ------------------------------------------------------ server responses
\* One shape for what a handler produced: the HTTP answer (status, error,
\* uid, redirect), what the page rendered, what a server action returned
\* or threw, and the server-side trace (verifier calls, logged error, whether
\* the action read its form data).
Response(route, cookie, bearer) ==
    [route |-> route, cookie |-> cookie, bearer |-> bearer,
     status |-> 0, error |-> "", uid |-> NoUser, message |-> "",
     redirect |-> "", rendered |-> FALSE, isAuthenticated |-> FALSE,
     thrown |-> "", success |-> FALSE, deleteCookie |-> FALSE,
     verifierCalls |-> 0, logged |-> "", formRead |-> FALSE]

NoResponse == Response("", Absent, Absent)

\* the Authorization header: absent, or "<scheme> <cred>"
NullHeader == [present |-> FALSE, scheme |-> "", cred |-> Absent]
Header(scheme, cred) == [present |-> TRUE, scheme |-> scheme, cred |-> cred]

\* authHeader?.split('Bearer ')[1]
BearerToken(authHeader) ==
    IF ~authHeader.present THEN Absent
    ELSE IF authHeader.scheme = "Bearer" THEN authHeader.cred
    ELSE Absent

\* (mutant) the layout without its second check
ProtectedLayoutUnverified(sessionCookie) ==
    LET r == Response("layout", sessionCookie, Absent)
    IN  IF Falsy(sessionCookie)
          THEN [r EXCEPT !.redirect = "/login"]
          ELSE [r EXCEPT !.rendered = TRUE]

\* app/(protected)/layout.tsx; the handlers await verifyIdToken outside any
\* try block, so an error it threw would leave the handler
ProtectedLayout(sessionCookie) ==
    LET r == Response("layout", sessionCookie, Absent)
        v == verifyIdToken(sessionCookie)
    IN  IF Falsy(sessionCookie)
          THEN [r EXCEPT !.redirect = "/login"]
        ELSE IF v.thrown # ""
          THEN [r EXCEPT !.thrown = v.thrown, !.verifierCalls = 1,
                         !.logged = v.logged]
        ELSE IF ~v.decoded.ok
          THEN [r EXCEPT !.redirect = "/login", !.verifierCalls = 1,
                         !.logged = v.logged]
        ELSE [r EXCEPT !.rendered = TRUE, !.verifierCalls = 1,
                       !.uid = v.decoded.uid]

\* (mutant) the request gate verifying with revocation checked
GETCheckRevoked(sessionCookie, authHeader) ==
    LET bearer == BearerToken(authHeader)
        token == IF Falsy(sessionCookie) THEN bearer ELSE sessionCookie
        r == Response("api/protected", sessionCookie, bearer)
        v == AdminVerifyIdToken(token, TRUE)
    IN  IF Falsy(token)
          THEN [r EXCEPT !.status = 401, !.error = "Missing authentication token"]
        ELSE IF ~v.ok
          THEN [r EXCEPT !.status = 401, !.error = "Invalid or expired token",
                         !.verifierCalls = 1, !.logged = v.code]
        ELSE [r EXCEPT !.status = 200, !.uid = v.uid,
                       !.message = "Authenticated successfully",
                       !.verifierCalls = 1]

\* (mutant) the request gate answering with the verifier's error
GETLeaky(sessionCookie, authHeader) ==
    LET bearer == BearerToken(authHeader)
        token == IF Falsy(sessionCookie) THEN bearer ELSE sessionCookie
        r == Response("api/protected", sessionCookie, bearer)
        v == verifyIdToken(token)
    IN  IF Falsy(token)
          THEN [r EXCEPT !.status = 401, !.error = "Missing authentication token"]
        ELSE IF ~v.decoded.ok
          THEN [r EXCEPT !.status = 401, !.error = v.logged,
                         !.verifierCalls = 1, !.logged = v.logged]
        ELSE [r EXCEPT !.status = 200, !.uid = v.decoded.uid,
                       !.message = "Authenticated successfully",
                       !.verifierCalls = 1]

\* (mutant) the request gate with one error message for every denial
GETOneMessage(sessionCookie, authHeader) ==
    LET bearer == BearerToken(authHeader)
        token == IF Falsy(sessionCookie) THEN bearer ELSE sessionCookie
        r == Response("api/protected", sessionCookie, bearer)
        v == verifyIdToken(token)
    IN  IF Falsy(token)
          THEN [r EXCEPT !.status = 401, !.error = "Invalid or expired token"]
        ELSE IF ~v.decoded.ok
          THEN [r EXCEPT !.status = 401, !.error = "Invalid or expired token",
                         !.verifierCalls = 1, !.logged = v.logged]
        ELSE [r EXCEPT !.status = 200, !.uid = v.decoded.uid,
                       !.message = "Authenticated successfully",
                       !.verifierCalls = 1]

\* (mutant) the request gate preferring the Authorization header
GETHeaderFirst(sessionCookie, authHeader) ==
    LET bearer == BearerToken(authHeader)
        token == IF Falsy(bearer) THEN sessionCookie ELSE bearer
        r == Response("api/protected", sessionCookie, bearer)
        v == verifyIdToken(token)
    IN  IF Falsy(token)
          THEN [r EXCEPT !.status = 401, !.error = "Missing authentication token"]
        ELSE IF ~v.decoded.ok
          THEN [r EXCEPT !.status = 401, !.error = "Invalid or expired token",
                         !.verifierCalls = 1, !.logged = v.logged]
        ELSE [r EXCEPT !.status = 200, !.uid = v.decoded.uid,
                       !.message = "Authenticated successfully",
                       !.verifierCalls = 1]

\* app/api/protected/route.ts GET
GET(sessionCookie, authHeader) ==
    LET bearer == BearerToken(authHeader)
        token == IF Falsy(sessionCookie) THEN bearer ELSE sessionCookie
        r == Response("api/protected", sessionCookie, bearer)
        v == verifyIdToken(token)
    IN  IF Falsy(token)
          THEN [r EXCEPT !.status = 401, !.error = "Missing authentication token"]
        ELSE IF v.thrown # ""
          THEN [r EXCEPT !.thrown = v.thrown, !.verifierCalls = 1,
                         !.logged = v.logged]
        ELSE IF ~v.decoded.ok
          THEN [r EXCEPT !.status = 401, !.error = "Invalid or expired token",
                         !.verifierCalls = 1, !.logged = v.logged]
        ELSE [r EXCEPT !.status = 200, !.uid = v.decoded.uid,
                       !.message = "Authenticated successfully",
                       !.verifierCalls = 1]

\* actions/auth-actions.ts getAuthenticatedUser
getAuthenticatedUser(sessionCookie) ==
    LET r == Response("getAuthenticatedUser", sessionCookie, Absent)
        v == verifyIdToken(sessionCookie)
    IN  IF Falsy(sessionCookie)
          THEN r
        ELSE IF v.thrown # ""
          THEN [r EXCEPT !.thrown = v.thrown, !.verifierCalls = 1,
                         !.logged = v.logged]
        ELSE IF ~v.decoded.ok
          THEN [r EXCEPT !.verifierCalls = 1, !.logged = v.logged]
        ELSE [r EXCEPT !.isAuthenticated = TRUE, !.uid = v.decoded.uid,
                       !.verifierCalls = 1]

\* (mutant) an action that reads its form data before it checks the caller
protectedServerActionReadsFirst(sessionCookie) ==
    LET a == getAuthenticatedUser(sessionCookie) IN
    IF a.thrown # ""
      THEN [a EXCEPT !.route = "protectedServerAction", !.formRead = TRUE]
    ELSE IF ~a.isAuthenticated
      THEN [a EXCEPT !.route = "protectedServerAction", !.thrown = "Unauthorized",
                     !.formRead = TRUE]
      ELSE [a EXCEPT !.route = "protectedServerAction", !.success = TRUE,
                     !.formRead = TRUE]

\* actions/auth-actions.ts protectedServerAction: formData.get('data') comes
\* after the check; the result is { success: true, userId: user?.uid }
protectedServerAction(sessionCookie) ==
    LET a == getAuthenticatedUser(sessionCookie) IN
    IF a.thrown # ""
      THEN [a EXCEPT !.route = "protectedServerAction"]
    ELSE IF ~a.isAuthenticated
      THEN [a EXCEPT !.route = "protectedServerAction", !.thrown = "Unauthorized"]
      ELSE [a EXCEPT !.route = "protectedServerAction", !.success = TRUE,
                     !.formRead = TRUE]

\* (mutant) a logout that answers 401 to a request without a cookie
POSTRequiresSession(sessionCookie) ==
    IF Falsy(sessionCookie)
      THEN [Response("api/logout", sessionCookie, Absent) EXCEPT
               !.status = 401, !.error = "Unauthorized"]
      ELSE [Response("api/logout", sessionCookie, Absent) EXCEPT
               !.status = 200, !.success = TRUE, !.deleteCookie = TRUE]

\* app/api/logout/route.ts POST: cookieStore.delete('__session') and the
\* JSON body { success: true }; the request's cookie is not read
POST(sessionCookie) ==
    [Response("api/logout", sessionCookie, Absent) EXCEPT
        !.status = 200, !.success = TRUE, !.deleteCookie = TRUE]

\* ------------------------------------------------------------ the cookie
\* what one assignment to document.cookie says
CookieWrite(value, maxAge, sameSite, secure) ==
    [name |-> "__session", value |-> value, path |-> "/", maxAge |-> maxAge,
     sameSite |-> sameSite, secure |-> secure]

NoCookie == [name |-> "", value |-> Absent, path |-> "", maxAge |-> 0,
             sameSite |-> "", secure |-> FALSE]
NoWrite  == NoCookie

\* (mutant) a cookie that lives one day
SessionCookieWriteDay(token) ==
    CookieWrite(token, 86400, "Lax", nodeEnv = "production")

\* `__session=${token}; path=/; max-age=${60*60*24*7}; SameSite=Lax; Secure;`
SessionCookieWrite(token) ==
    CookieWrite(token, SessionMaxAge, "Lax", nodeEnv = "production")

\* '__session=; path=/; max-age=0'
SessionCookieClear == CookieWrite(Empty, 0, "", FALSE)

\* the browser's document.cookie setter: a max-age of zero removes the cookie
DocumentCookie(write) == IF write.maxAge <= 0 THEN NoCookie ELSE write

\* the cookie value a request of this browser carries
SentCookie == jar.value

Cleared == jar = NoCookie /\ lastWrite = SessionCookieClear

\* ------------------------------------------------------- client helpers
Remove(seq, i) == [k \in 1..(Len(seq) - 1) |-> IF k < i THEN seq[k] ELSE seq[k + 1]]

\* Observation only, read by no handler: op, the handler the step just taken
\* ran; soDone, the signOut() calls completed since the last sign-in (counted
\* up to 2); soAuth, one of them was made with a user present; solo, when not
\* zero: the notifications sent since the last sign-in, that of the sign-in
\* included, while nothing but token refreshes and the mirror has run;
\* unmounted, the AuthProvider's cleanups have run
NoHist == [op |-> "init", soDone |-> 0, soAuth |-> FALSE, solo |-> 0,
           unmounted |-> FALSE]
Hist(op) == [hist EXCEPT !.op = op]
HistOther(op) == [hist EXCEPT !.op = op, !.solo = 0]

\* unsubscribe() and clearInterval(interval) remove the one registration they
\* were made for; setInterval adds one
Unsubscribe(n) == IF n > 0 THEN n - 1 ELSE 0
ClearInterval(n) == IF n > 0 THEN n - 1 ELSE 0
SetInterval(n) == n + 1

\* (mutant) the interval effect without its cleanup
IntervalEffectLeaky(u) ==
    IF u # user THEN SetInterval(intervals) ELSE intervals

\* AuthContext.tsx: the interval effect, deps [user]: when setUser(u) changes
\* the user, the effect's cleanup runs and then the effect again
IntervalEffect(u) ==
    IF u # user THEN SetInterval(ClearInterval(intervals)) ELSE intervals

\* the identity provider mints the next assertion for user u
Mint(u) == Append(tokens, [uid |-> u, expired |-> FALSE, revoked |-> FALSE])
NextTok == Len(tokens) + 1

\* idTokenSubscription.next(currentUser): the listener is called in a later job
Notify(u) == IF listeners > 0 THEN Append(events, u) ELSE events

\* user.getIdToken(false) answers from the User object when the token it
\* holds has not expired; otherwise, and always for getIdToken(true), the
\* token is requested from the identity provider
CacheHit(u, forceRefresh) ==
    /\ ~forceRefresh
    /\ cached[u] \in Minted
    /\ ~tokens[cached[u]].expired

\* user.getIdToken(forceRefresh), as the promise the caller awaits
getIdToken(by, u, forceRefresh) ==
    [by |-> by, user |-> u, forced |-> forceRefresh,
     net |-> ~CacheHit(u, forceRefresh),
     token |-> IF CacheHit(u, forceRefresh) THEN cached[u] ELSE NoToken]

NetFetches == {i \in 1..Len(fetches) : fetches[i].net}

\* Promise continuations and listener notifications are jobs: the JavaScript
\* run loop finishes every pending job before it takes the next timer,
\* network or user-interface event.
JobsPending ==
    \/ events # <<>>
    \/ \E i \in 1..Len(fetches) : ~fetches[i].net
    \/ soPc.pc = "resumable"
    \/ siPc.pc = "resolved"
    \/ rrPc = "pending"

\* the response the SDK received for a token request updates the User object
\* and notifies the listeners when that user is the current one
Received(f) == [cached EXCEPT ![f.user] = f.token]
NotifyIfCurrent(f) == IF f.user = authUser THEN Notify(authUser) ELSE events

\* ------------------------------------------------- sign-in from the buttons
\* SocialLoginButtons and LoginPage while one handleSignIn call runs: pending,
\* the buttons' `loading` state; error, LoginPage's `error` state; page, what
\* the browser shows; and what the call has done so far: the handshakes it
\* started, what the facade verb threw to it, the callbacks it made
\* inProvider: an AuthProvider is mounted above the page; renderError: what
\* rendering the page threw; inFlight: the handleSignIn calls that have
\* started and not ended
NoLogin ==
    [page |-> "login", pc |-> "idle", pending |-> "null", provider |-> "null",
     popups |-> <<>>, redirects |-> <<>>, thrown |-> "",
     onSuccess |-> 0, onError |-> 0, message |-> JsNull, error |-> JsNull,
     inProvider |-> TRUE, renderError |-> "", inFlight |-> 0]

\* AuthContext.tsx: createContext<AuthContextType | undefined>(undefined)
AuthContextDefault == JsUndefined

\* the value the AuthProvider passes to AuthContext.Provider (the verbs are
\* the same functions on every render)
ProviderValue ==
    [type |-> "object", val |-> "AuthContextType", user |-> user, loading |-> loading]

\* React's useContext(AuthContext): the value of the nearest provider above
\* the component, else the default the context was created with
useContext(inProvider) == IF inProvider THEN ProviderValue ELSE AuthContextDefault

UseAuthError == "useAuth must be used within an AuthProvider"

\* (mutant) a hook that hands the default on instead of throwing
useAuthDefault(context) == [thrown |-> "", returned |-> context]

\* AuthContext.tsx useAuth: what it throws and what it returns
useAuth(context) ==
    IF context.type = "undefined"
      THEN [thrown |-> UseAuthError, returned |-> JsUndefined]
      ELSE [thrown |-> "", returned |-> context]

\* LoginPage up to `const { user, loading } = useAuth()`: a render that throws
\* shows the error page and none of the buttons
LoginPage(inProvider) ==
    LET r == useAuth(useContext(inProvider))
    IN  [NoLogin EXCEPT !.inProvider = inProvider,
                        !.renderError = r.thrown,
                        !.page = IF r.thrown # "" THEN "error" ELSE "login"]

\* codes signInWithPopup may reject with: those of the table and two others
SdkErrorCodes == DOMAIN firebaseErrorMessages \cup
                 {"auth/internal-error", "auth/cancelled-popup-request"}

\* lib/firebase/auth.ts signInWithProvider up to its await: one popup
\* handshake for the provider
signInWithPopup(providerName) == <<providerName>>

\* (mutant) a catch block that falls back to the redirect on every failure
signInWithProviderCatchAny(providerName, code) ==
    [redirects |-> <<providerName>>, thrown |-> code]

\* lib/firebase/auth.ts signInWithProvider, its catch block: the redirect
\* handshakes it starts and the error it rethrows
signInWithProviderCatch(providerName, code) ==
    [redirects |-> IF code = "auth/popup-blocked" THEN <<providerName>> ELSE <<>>,
     thrown |-> code]

\* (mutant) a catch block that reports the cancellation as well
handleSignInCatchAll(code) ==
    [onError |-> 1, message |-> getAuthErrorMessage(code)]

\* SocialLoginButtons.tsx handleSignIn, its catch block: the onError call
handleSignInCatch(code) ==
    IF code = "auth/popup-closed-by-user"
      THEN [onError |-> 0, message |-> JsNull]
      ELSE [onError |-> 1, message |-> getAuthErrorMessage(code)]

\* ------------------------------------------------- sign-out from the button
\* LogoutButton while one handleLogout call runs: pc, the await the call
\* stands at; loading, the button's `loading` state; page, what the browser
\* shows; steps, what the call has done so far, in order; logged, the step
\* whose error the catch block logged
NoLogout ==
    [pc |-> "idle", loading |-> FALSE, page |-> "app", steps |-> <<>>,
     logged |-> ""]

\* (mutant) a handler without its finally block
handleLogoutCatchStuck(step) ==
    [logout EXCEPT !.pc = "idle", !.logged = step]

\* LogoutButton.tsx handleLogout, catch and finally: console.error, then
\* setLoading(false)
handleLogoutCatch(step) ==
    [logout EXCEPT !.pc = "idle", !.loading = FALSE, !.logged = step]

\* LogoutButton.tsx handleLogout at `await signOut()`: when the facade verb
\* resolves the call goes on to fetch('/api/logout', { method: 'POST' }), when
\* it rejects to the catch block; a signOut() of another caller is not its
\* business
handleLogoutAfterSignOut(resolved) ==
    IF logout.pc # "signOut" THEN logout
    ELSE IF resolved
      THEN [logout EXCEPT !.pc = "POST", !.steps = Append(@, "POST")]
      ELSE handleLogoutCatch("signOut")

\* ---------------------------------------------------------------- Init
Idle == [pc |-> "idle"]

\* signOut(): where the call in flight stands, and whether a user was present
\* when it was made
NoSignOut == [pc |-> "idle", wasAuth |-> FALSE]

InitCommon ==
    /\ fetches = <<>>
    /\ user = NoUser
    /\ loading = TRUE
    /\ lastWrite = NoWrite
    /\ nodeEnv \in {"production", "development"}
    /\ soPc = NoSignOut
    /\ siPc = Idle
    /\ login = NoLogin
    /\ logout = NoLogout
    /\ hist = NoHist
    /\ resp = NoResponse

\* the page has loaded for an anonymous visitor
InitAnonymous ==
    /\ tokens = <<>>
    /\ authUser = NoUser
    /\ cached = [u \in Users |-> NoToken]
    /\ jar = NoCookie

\* the page has loaded for a user whose session the SDK persisted, and whose
\* cookie the browser kept, from an earlier page load
InitPersisted ==
    \E u \in Users, e \in BOOLEAN :
       /\ tokens = <<[uid |-> u, expired |-> e, revoked |-> FALSE]>>
       /\ authUser = u
       /\ cached = [w \in Users |-> IF w = u THEN 1 ELSE NoToken]
       /\ jar = DocumentCookie(SessionCookieWrite(1))

InitSession == InitAnonymous \/ InitPersisted

\* the mount effect has called handleRedirectResult() and subscribed
Init ==
    /\ InitCommon
    /\ InitSession
    /\ listeners = 1
    /\ intervals = 1
    /\ events = <<authUser>>
    /\ rrPc = "pending"

\* ------------------------------------------------------- redirect result
\* lib/firebase/auth.ts handleRedirectResult, called by the mount effect:
\* getRedirectResult resolves once the SDK has initialised, with the outcome
\* of a redirect sign-in or with null (a user signed in that way is the
\* persisted user of InitSession); the result is dropped
RedirectResultResolves ==
    /\ rrPc = "pending"
    /\ rrPc' = "done"
    /\ hist' = Hist("redirect:resolved")
    /\ UNCHANGED <<tokens, authUser, cached, events, fetches, user, loading,
                   listeners, intervals, jar, lastWrite, nodeEnv, login, logout, soPc, siPc>>
    /\ resp' = NoResponse

\* getRedirectResult rejects: handleRedirectResult logs and rethrows, and the
\* mount effect's .catch(console.error) logs the error again
RedirectResultRejects ==
    /\ rrPc = "pending"
    /\ rrPc' = "done"
    /\ hist' = Hist("redirect:logged")
    /\ UNCHANGED <<tokens, authUser, cached, events, fetches, user, loading,
                   listeners, intervals, jar, lastWrite, nodeEnv, login, logout, soPc, siPc>>
    /\ resp' = NoResponse

\* -------------------------------------------------------- session mirror
\* (mutant) a callback that shows the loading state while it fetches the token
MirrorCallbackSpinner ==
    /\ listeners > 0
    /\ events # <<>>
    /\ LET u == Head(events) IN
       /\ user' = u
       /\ intervals' = IntervalEffect(u)
       /\ events' = Tail(events)
       /\ IF u # NoUser
            THEN /\ fetches' = Append(fetches, getIdToken("mirror", u, FALSE))
                 /\ hist' = Hist("mirror:getIdToken")
                 /\ loading' = TRUE
                 /\ UNCHANGED <<jar, lastWrite>>
            ELSE /\ jar' = DocumentCookie(SessionCookieClear)
                 /\ lastWrite' = SessionCookieClear
                 /\ loading' = FALSE
                 /\ hist' = Hist("mirror:clear")
                 /\ UNCHANGED fetches
    /\ UNCHANGED <<tokens, authUser, cached, listeners, nodeEnv, login, logout, rrPc, soPc, siPc>>
    /\ resp' = NoResponse

\* (mutant) a callback that sets the user and leaves the cookie of an absent
\* user to a later step
MirrorCallbackDeferredClear ==
    /\ listeners > 0
    /\ events # <<>>
    /\ LET u == Head(events) IN
       /\ user' = u
       /\ intervals' = IntervalEffect(u)
       /\ events' = Tail(events)
       /\ IF u # NoUser
            THEN /\ fetches' = Append(fetches, getIdToken("mirror", u, FALSE))
                 /\ hist' = Hist("mirror:getIdToken")
                 /\ UNCHANGED <<jar, lastWrite, loading>>
            ELSE /\ hist' = Hist("mirror:clear")
                 /\ UNCHANGED <<jar, lastWrite, loading, fetches>>
    /\ UNCHANGED <<tokens, authUser, cached, listeners, nodeEnv, login, logout, rrPc, soPc, siPc>>
    /\ resp' = NoResponse

\* AuthContext.tsx: the onAuthStateChange callback up to its await
MirrorCallback ==
    /\ listeners > 0
    /\ events # <<>>
    /\ LET u == Head(events) IN
       /\ user' = u
       /\ intervals' = IntervalEffect(u)
       /\ events' = Tail(events)
       /\ IF u # NoUser
            THEN /\ fetches' = Append(fetches, getIdToken("mirror", u, FALSE))
                 /\ hist' = Hist("mirror:getIdToken")
                 /\ UNCHANGED <<jar, lastWrite, loading>>
            ELSE /\ jar' = DocumentCookie(SessionCookieClear)
                 /\ lastWrite' = SessionCookieClear
                 /\ loading' = FALSE
                 /\ hist' = Hist("mirror:clear")
                 /\ UNCHANGED fetches
    /\ UNCHANGED <<tokens, authUser, cached, listeners, nodeEnv, login, logout, rrPc, soPc, siPc>>
    /\ resp' = NoResponse

\* the order in which awaited getIdToken promises may settle: those answered
\* from the User object settle in call order, ahead of the next event; those
\* waiting for the network settle when their response arrives
MaySettle(i) ==
    /\ i \in 1..Len(fetches)
    /\ IF fetches[i].net
         THEN ~JobsPending /\ fetches[i].token # NoToken
         ELSE \A j \in 1..(i - 1) : fetches[j].net

\* (mutant) the callback leaving an existing cookie alone
MirrorCookieKeep(token) ==
    IF jar = NoCookie THEN SessionCookieWrite(token) ELSE jar

\* the cookie assignment of the callback's user branch
MirrorCookie(token) == SessionCookieWrite(token)

\* AuthContext.tsx: the onAuthStateChange callback after its await
MirrorResume(i) ==
    /\ MaySettle(i)
    /\ fetches[i].by = "mirror"
    /\ LET f == fetches[i] IN
       /\ jar' = DocumentCookie(MirrorCookie(f.token))
       /\ lastWrite' = MirrorCookie(f.token)
       /\ loading' = FALSE
       /\ fetches' = Remove(fetches, i)
       /\ cached' = IF f.net THEN Received(f) ELSE cached
       /\ events' = IF f.net THEN NotifyIfCurrent(f) ELSE events
       /\ hist' = Hist("mirror:write")
    /\ UNCHANGED <<tokens, authUser, user, listeners, intervals, nodeEnv, login, logout, rrPc, soPc, siPc>>
    /\ resp' = NoResponse

\* (mutant) a rejected scheduler refresh that stops the scheduler
FetchRejectsStopsTimer(i) ==
    /\ i \in NetFetches
    /\ ~JobsPending
    /\ fetches' = Remove(fetches, i)
    /\ intervals' = IF fetches[i].by = "sched" THEN ClearInterval(intervals)
                                                ELSE intervals
    /\ hist' = Hist(fetches[i].by \o ":rejected")
    /\ UNCHANGED <<tokens, authUser, cached, events, user, loading, listeners,
                   jar, lastWrite, nodeEnv, login, logout, rrPc, soPc, siPc>>
    /\ resp' = NoResponse

\* the awaited getIdToken promise rejects: the callback ends at its await
FetchRejects(i) ==
    /\ i \in NetFetches
    /\ ~JobsPending
    /\ fetches' = Remove(fetches, i)
    /\ hist' = Hist(fetches[i].by \o ":rejected")
    /\ UNCHANGED <<tokens, authUser, cached, events, user, loading, listeners,
                   intervals, jar, lastWrite, nodeEnv, login, logout, rrPc, soPc, siPc>>
    /\ resp' = NoResponse

\* the identity provider answers a token request of this client
IssueToken(i) ==
    /\ i \in NetFetches
    /\ fetches[i].token = NoToken
    /\ Len(tokens) < MaxTok
    /\ ~JobsPending
    /\ tokens' = Mint(fetches[i].user)
    /\ fetches' = [fetches EXCEPT ![i].token = NextTok]
    /\ hist' = Hist("issue")
    /\ UNCHANGED <<authUser, cached, events, user, loading, listeners, intervals,
                   jar, lastWrite, nodeEnv, login, logout, rrPc, soPc, siPc>>
    /\ resp' = NoResponse

\* ----------------------------------------------------- refresh scheduler
\* the interval is ten minutes (10 * 60 * 1000) and the SDK gives up on a
\* token request within a minute: a tick finds no request of an earlier tick
\* still in flight
NoSchedFetch == \A i \in 1..Len(fetches) : fetches[i].by # "sched"

\* (mutant) the interval callback asking for the token without forcing
TimerTickCached ==
    /\ intervals > 0
    /\ ~JobsPending
    /\ IF user # NoUser
         THEN /\ Cardinality(NetFetches) < MaxFetch
              /\ NoSchedFetch
              /\ fetches' = Append(fetches, getIdToken("sched", user, FALSE))
              /\ hist' = HistOther("sched:getIdToken")
         ELSE /\ hist' = Hist("sched:idle")
              /\ UNCHANGED fetches
    /\ resp' = NoResponse
    /\ UNCHANGED <<tokens, authUser, cached, events, user, loading, listeners,
                   intervals, jar, lastWrite, nodeEnv, login, logout, rrPc, soPc, siPc>>

\* (mutant) an interval callback without its `if (currentUser)`: with no user
\* it assigns the cookie with an empty token
TimerTickUnguarded ==
    /\ intervals > 0
    /\ ~JobsPending
    /\ IF user # NoUser
         THEN /\ Cardinality(NetFetches) < MaxFetch
              /\ NoSchedFetch
              /\ fetches' = Append(fetches, getIdToken("sched", user, TRUE))
              /\ hist' = HistOther("sched:getIdToken")
              /\ UNCHANGED <<jar, lastWrite>>
         ELSE /\ hist' = Hist("sched:idle")
              /\ jar' = DocumentCookie(SessionCookieWrite(Empty))
              /\ lastWrite' = SessionCookieWrite(Empty)
              /\ UNCHANGED fetches
    /\ UNCHANGED <<tokens, authUser, cached, events, user, loading, listeners,
                   intervals, nodeEnv, login, logout, rrPc, soPc, siPc>>
    /\ resp' = NoResponse

\* AuthContext.tsx: the setInterval callback up to its await
TimerTick ==
    /\ intervals > 0
    /\ ~JobsPending
    /\ IF user # NoUser
         THEN /\ Cardinality(NetFetches) < MaxFetch
              /\ NoSchedFetch
              /\ fetches' = Append(fetches, getIdToken("sched", user, TRUE))
              /\ hist' = HistOther("sched:getIdToken")
         ELSE /\ hist' = Hist("sched:idle")
              /\ UNCHANGED fetches
    /\ UNCHANGED <<tokens, authUser, cached, events, user, loading, listeners,
                   intervals, jar, lastWrite, nodeEnv, login, logout, rrPc, soPc, siPc>>
    /\ resp' = NoResponse

\* (mutant) the interval callback leaving the Secure attribute out
SchedCookieInsecure(token) == CookieWrite(token, SessionMaxAge, "Lax", FALSE)

\* the cookie assignment of the interval callback
SchedCookie(token) == SessionCookieWrite(token)

\* AuthContext.tsx: the setInterval callback after its await
SchedResume(i) ==
    /\ MaySettle(i)
    /\ fetches[i].by = "sched"
    /\ LET f == fetches[i] IN
       /\ jar' = DocumentCookie(SchedCookie(f.token))
       /\ lastWrite' = SchedCookie(f.token)
       /\ fetches' = Remove(fetches, i)
       /\ cached' = Received(f)
       /\ events' = NotifyIfCurrent(f)
       /\ hist' = Hist("sched:write")
    /\ UNCHANGED <<tokens, authUser, user, loading, listeners, intervals, nodeEnv, login, logout, rrPc,
                   soPc, siPc>>
    /\ resp' = NoResponse

\* ---------------------------------------------------------------- facade
ErrorCodes == {"auth/popup-blocked", "auth/popup-closed-by-user",
               "auth/network-request-failed"}

\* AuthContext.tsx signOut, up to `await firebaseSignOut()`
signOut ==
    /\ listeners > 0
    /\ soPc.pc = "idle"
    /\ ~JobsPending
    /\ soPc' = [soPc EXCEPT !.pc = "awaiting", !.wasAuth = (user # NoUser)]
    /\ hist' = HistOther("signOut:call")
    /\ UNCHANGED <<tokens, authUser, cached, events, fetches, user, loading,
                   listeners, intervals, jar, lastWrite, nodeEnv, login, rrPc, siPc>>
    /\ resp' = NoResponse

\* some component other than the LogoutButton calls signOut()
SignOutCall ==
    /\ signOut
    /\ UNCHANGED logout

\* LogoutButton.tsx handleLogout up to `await signOut()`; the button is
\* disabled while loading
handleLogout ==
    /\ logout.page = "app"
    /\ ~logout.loading
    /\ signOut
    /\ logout' = [logout EXCEPT !.pc = "signOut", !.loading = TRUE,
                                !.steps = <<"signOut">>, !.logged = ""]

\* lib/firebase/auth.ts signOut: the SDK drops the current user, notifies the
\* listeners and resolves
FirebaseSignOutResolves ==
    /\ soPc.pc = "awaiting"
    /\ ~JobsPending
    /\ authUser' = NoUser
    /\ events' = Notify(NoUser)
    /\ soPc' = [soPc EXCEPT !.pc = "resumable"]
    /\ hist' = Hist("signOut:invalidated")
    /\ UNCHANGED <<tokens, cached, fetches, user, loading, listeners, intervals,
                   jar, lastWrite, nodeEnv, login, logout, rrPc, siPc>>
    /\ resp' = NoResponse

\* (mutant) a facade signOut that clears the cookie in a finally block
FirebaseSignOutRejectsClears ==
    /\ soPc.pc = "awaiting"
    /\ ~JobsPending
    /\ soPc' = NoSignOut
    /\ jar' = DocumentCookie(SessionCookieClear)
    /\ lastWrite' = SessionCookieClear
    /\ logout' = handleLogoutAfterSignOut(FALSE)
    /\ hist' = Hist("signOut:rejected")
    /\ UNCHANGED <<tokens, authUser, cached, events, fetches, user, loading,
                   listeners, intervals, nodeEnv, login, rrPc, siPc>>
    /\ resp' = NoResponse

\* lib/firebase/auth.ts signOut rejects: the facade's signOut rejects at its
\* await, and so does the `await signOut()` of its caller
FirebaseSignOutRejects ==
    /\ soPc.pc = "awaiting"
    /\ ~JobsPending
    /\ soPc' = NoSignOut
    /\ logout' = handleLogoutAfterSignOut(FALSE)
    /\ hist' = Hist("signOut:rejected")
    /\ UNCHANGED <<tokens, authUser, cached, events, fetches, user, loading,
                   listeners, intervals, jar, lastWrite, nodeEnv, login, rrPc, siPc>>
    /\ resp' = NoResponse

\* (mutant) signOut emptying the value but keeping the cookie's age
SignOutCookieAged == CookieWrite(Empty, SessionMaxAge, "", FALSE)

\* (mutant) signOut returning early when it was called without a user
SignOutCookieSkip ==
    IF soPc.wasAuth THEN SessionCookieClear
    ELSE IF jar = NoCookie THEN lastWrite ELSE jar

\* the cookie assignment signOut makes after its await
SignOutCookie == SessionCookieClear

\* (mutant) a signOut that also resets the AuthProvider's user state
SignOutResumeSetsUser ==
    /\ soPc.pc = "resumable"
    /\ jar' = DocumentCookie(SignOutCookie)
    /\ lastWrite' = SignOutCookie
    /\ soPc' = NoSignOut
    /\ user' = NoUser
    /\ hist' = [hist EXCEPT !.op = "signOut:resolved",
                            !.soDone = IF @ < 2 THEN @ + 1 ELSE 2,
                            !.soAuth = (@ \/ soPc.wasAuth)]
    /\ logout' = handleLogoutAfterSignOut(TRUE)
    /\ UNCHANGED <<tokens, authUser, cached, events, fetches, loading,
                   listeners, intervals, nodeEnv, login, rrPc, siPc>>
    /\ resp' = NoResponse

\* AuthContext.tsx signOut, after `await firebaseSignOut()`
SignOutResume ==
    /\ soPc.pc = "resumable"
    /\ jar' = DocumentCookie(SignOutCookie)
    /\ lastWrite' = SignOutCookie
    /\ soPc' = NoSignOut
    /\ hist' = [hist EXCEPT !.op = "signOut:resolved",
                            !.soDone = IF @ < 2 THEN @ + 1 ELSE 2,
                            !.soAuth = (@ \/ soPc.wasAuth)]
    /\ logout' = handleLogoutAfterSignOut(TRUE)
    /\ UNCHANGED <<tokens, authUser, cached, events, fetches, user, loading,
                   listeners, intervals, nodeEnv, login, rrPc, siPc>>
    /\ resp' = NoResponse

\* AuthContext.tsx signInWithGoogle / GitHub / Twitter -> signInWithProvider,
\* up to `await signInWithPopup(auth, provider)`
SignInCall(p) ==
    /\ listeners > 0
    /\ siPc.pc = "idle"
    /\ ~JobsPending
    /\ siPc' = [pc |-> "popup"]
    /\ hist' = Hist("signIn:call")
    /\ UNCHANGED <<tokens, authUser, cached, events, fetches, user, loading,
                   listeners, intervals, jar, lastWrite, nodeEnv, login, logout, rrPc, soPc>>
    /\ resp' = NoResponse

\* the popup handshake succeeds for user u: the SDK holds u with a fresh
\* token, notifies the listeners and resolves signInWithPopup
PopupResolves(u) ==
    /\ siPc.pc = "popup"
    /\ ~JobsPending
    /\ Len(tokens) < MaxTok
    /\ tokens' = Mint(u)
    /\ authUser' = u
    /\ cached' = [cached EXCEPT ![u] = NextTok]
    /\ events' = Notify(u)
    /\ siPc' = [pc |-> "resolved"]
    /\ hist' = [op |-> "signIn:popup", soDone |-> 0, soAuth |-> FALSE,
                unmounted |-> hist.unmounted,
                solo |-> IF fetches = <<>> /\ soPc.pc = "idle" /\ listeners > 0
                           THEN 1 ELSE 0]
    /\ UNCHANGED <<fetches, user, loading, listeners, intervals, jar, lastWrite,
                   nodeEnv, login, logout, rrPc, soPc>>
    /\ resp' = NoResponse

\* signInWithProvider returns the credential and the facade verb resolves;
\* the caller, handleSignIn of the buttons, continues in the same job with
\* onSuccess -> router.push('/dashboard')
SignInResume ==
    /\ siPc.pc = "resolved"
    /\ siPc' = Idle
    /\ hist' = Hist("signIn:resolved")
    /\ UNCHANGED <<tokens, authUser, cached, events, fetches, user, loading,
                   listeners, intervals, jar, lastWrite, nodeEnv, login, logout, rrPc, soPc>>
    /\ resp' = NoResponse

\* the popup handshake fails: the catch block of signInWithProvider starts the
\* redirect handshake for auth/popup-blocked and rethrows
PopupRejects(code) ==
    /\ siPc.pc = "popup"
    /\ ~JobsPending
    /\ siPc' = Idle
    /\ hist' = Hist(IF code = "auth/popup-blocked"
                      THEN "signIn:redirect+rejected"
                      ELSE "signIn:rejected")
    /\ UNCHANGED <<tokens, authUser, cached, events, fetches, user, loading,
                   listeners, intervals, jar, lastWrite, nodeEnv, login, logout, rrPc, soPc>>
    /\ resp' = NoResponse

\* AuthContext.tsx: the cleanups of both effects
Unmount ==
    /\ listeners > 0
    /\ ~JobsPending
    /\ listeners' = Unsubscribe(listeners)
    /\ intervals' = ClearInterval(intervals)
    /\ hist' = [HistOther("unmount") EXCEPT !.unmounted = TRUE]
    /\ UNCHANGED <<tokens, authUser, cached, events, fetches, user, loading,
                   jar, lastWrite, nodeEnv, login, logout, rrPc, soPc, siPc>>
    /\ resp' = NoResponse

\* LoginPage: the effect with deps [user, loading, router], run when the page
\* is mounted below the provider or rendered again with another user or
\* loading: `if (!loading && user) router.push('/dashboard')`.  React renders
\* and runs effects in a task of its own, after the pending jobs.
LoginPageEffect ==
    /\ listeners > 0
    /\ ~JobsPending
    /\ hist' = Hist(IF ~loading /\ user # NoUser THEN "login:push" ELSE "login:effect")
    /\ UNCHANGED <<tokens, authUser, cached, events, fetches, user, loading,
                   listeners, intervals, jar, lastWrite, nodeEnv, login, logout, rrPc, soPc, siPc>>
    /\ resp' = NoResponse

\* ----------------------------------------------------------- environment
\* an hour has passed since token t was minted (older tokens expire first);
\* a token lives far longer than a call takes, so no call is in flight
TokenExpires(t) ==
    /\ t \in Minted
    /\ ~tokens[t].expired
    /\ \A o \in 1..(t - 1) : tokens[o].expired
    /\ ~JobsPending
    /\ fetches = <<>>
    /\ soPc.pc = "idle"
    /\ siPc.pc = "idle"
    /\ tokens' = [tokens EXCEPT ![t].expired = TRUE]
    /\ resp' = NoResponse
    /\ hist' = Hist("environment")
    /\ UNCHANGED clientVars

\* an administrator revokes the sessions of user u
Revoke(u) ==
    /\ \E t \in Minted : tokens[t].uid = u /\ ~tokens[t].revoked
    /\ ~JobsPending
    /\ tokens' = [t \in Minted |->
                    IF tokens[t].uid = u THEN [tokens[t] EXCEPT !.revoked = TRUE]
                    ELSE tokens[t]]
    /\ resp' = NoResponse
    /\ hist' = Hist("environment")
    /\ UNCHANGED clientVars

\* the SDK renews the current user's token on its own
SilentRefresh ==
    /\ authUser # NoUser
    /\ ~JobsPending
    /\ Len(tokens) < MaxTok
    /\ tokens' = Mint(authUser)
    /\ cached' = [cached EXCEPT ![authUser] = NextTok]
    /\ events' = Notify(authUser)
    /\ hist' = [hist EXCEPT !.op = "sdk:refresh",
                            !.solo = IF @ > 0 THEN @ + 1 ELSE 0]
    /\ UNCHANGED <<authUser, fetches, user, loading, listeners, intervals, jar,
                   lastWrite, nodeEnv, login, logout, rrPc, soPc, siPc>>
    /\ resp' = NoResponse

\* ------------------------------------------- requests of this browser
\* (navigation to a protected page; the LogoutButton's POST /api/logout)
RenderProtected ==
    /\ ~JobsPending
    /\ resp' = ProtectedLayout(SentCookie)
    /\ hist' = Hist("request")
    /\ UNCHANGED <<tokens, clientVars>>

PostLogout ==
    /\ ~JobsPending
    /\ resp' = POST(SentCookie)
    /\ jar' = IF POST(SentCookie).deleteCookie THEN NoCookie ELSE jar
    /\ hist' = HistOther("request")
    /\ UNCHANGED <<tokens, authUser, cached, events, fetches, user, loading,
                   listeners, intervals, lastWrite, nodeEnv, login, logout, rrPc, soPc, siPc>>

Next ==
    \/ RedirectResultResolves
    \/ RedirectResultRejects
    \/ MirrorCallback
    \/ \E i \in 1..Len(fetches) : MirrorResume(i)
    \/ \E i \in 1..Len(fetches) : SchedResume(i)
    \/ \E i \in 1..Len(fetches) : FetchRejects(i)
    \/ \E i \in 1..Len(fetches) : IssueToken(i)
    \/ TimerTick
    \/ SignOutCall
    \/ FirebaseSignOutResolves
    \/ FirebaseSignOutRejects
    \/ SignOutResume
    \/ \E p \in Providers : SignInCall(p)
    \/ \E u \in Users : PopupResolves(u)
    \/ SignInResume
    \/ \E c \in ErrorCodes : PopupRejects(c)
    \/ Unmount
    \/ LoginPageEffect
    \/ \E t \in 1..Len(tokens) : TokenExpires(t)
    \/ SilentRefresh
    \/ RenderProtected
    \/ PostLogout

Spec == Init /\ [][Next]_vars

\* The run loop runs every pending job, the interval keeps firing, and every
\* token request is answered, with a token or with an error.
Fairness ==
    /\ WF_vars(RedirectResultResolves \/ RedirectResultRejects)
    /\ WF_vars(MirrorCallback)
    /\ WF_vars(SignOutResume)
    /\ WF_vars(SignInResume)
    /\ WF_vars(TimerTick)
    /\ WF_vars(\E i \in 1..Len(fetches) : MirrorResume(i) \/ SchedResume(i))
    /\ WF_vars(\E i \in 1..Len(fetches) : IssueToken(i) \/ FetchRejects(i))

LiveSpec == Spec /\ Fairness

\* ------------------------------------- the server under arbitrary requests
Credentials == {Absent, Empty, Malformed, BadSignature} \cup (1..MaxTok)
Headers == {NullHeader} \cup
           {Header(s, c) : s \in {"Bearer", "Basic"}, c \in Credentials \ {Absent}}

\* the server handlers read the request and the identity provider's tokens
\* only: the browser of this model stays as an anonymous visitor's
GuardInit ==
    /\ InitCommon
    /\ InitAnonymous
    /\ nodeEnv = "production"
    /\ listeners = 0
    /\ intervals = 0
    /\ events = <<>>
    /\ rrPc = "done"

\* a sign-in or a refresh of some client of the application
ProviderMints(u) ==
    /\ Len(tokens) < MaxTok
    /\ tokens' = Mint(u)
    /\ resp' = NoResponse
    /\ hist' = Hist("environment")
    /\ UNCHANGED clientVars

RequestLayout(c) ==
    /\ resp' = ProtectedLayout(c)
    /\ hist' = Hist("request")
    /\ UNCHANGED <<tokens, clientVars>>

RequestGET(c, h) ==
    /\ resp' = GET(c, h)
    /\ hist' = Hist("request")
    /\ UNCHANGED <<tokens, clientVars>>

RequestAction(c) ==
    /\ resp' \in {getAuthenticatedUser(c), protectedServerAction(c)}
    /\ hist' = Hist("request")
    /\ UNCHANGED <<tokens, clientVars>>

RequestPOST(c) ==
    /\ resp' = POST(c)
    /\ hist' = Hist("request")
    /\ UNCHANGED <<tokens, clientVars>>

GuardNext ==
    \/ \E u \in Users : ProviderMints(u)
    \/ \E t \in 1..Len(tokens) : TokenExpires(t)
    \/ \E u \in Users : Revoke(u)
    \/ \E c \in Credentials : RequestLayout(c)
    \/ \E c \in Credentials, h \in Headers : RequestGET(c, h)
    \/ \E c \in Credentials : RequestAction(c)
    \/ \E c \in Credentials : RequestPOST(c)

GuardSpec == GuardInit /\ [][GuardNext]_vars

\* ------------------------------------------------ the LogoutButton at work
\* LogoutButton.tsx handleLogout, after `await fetch('/api/logout', ...)`
\* resolved: the server has answered (fetch resolves whatever the status) and
\* its Set-Cookie is applied; router.push('/login'); finally
LogoutPostResolves ==
    /\ logout.pc = "POST"
    /\ ~JobsPending
    /\ resp' = POST(SentCookie)
    /\ jar' = IF POST(SentCookie).deleteCookie THEN NoCookie ELSE jar
    /\ logout' = [logout EXCEPT !.pc = "idle", !.loading = FALSE,
                                !.steps = Append(@, "push"), !.page = "login"]
    /\ hist' = HistOther("logout:push")
    /\ UNCHANGED <<tokens, authUser, cached, events, fetches, user, loading,
                   listeners, intervals, lastWrite, nodeEnv, login, rrPc, soPc, siPc>>

\* the fetch rejects (the server was not reached): catch, finally
LogoutPostRejects ==
    /\ logout.pc = "POST"
    /\ ~JobsPending
    /\ logout' = handleLogoutCatch("POST")
    /\ hist' = HistOther("logout:rejected")
    /\ UNCHANGED <<tokens, authUser, cached, events, fetches, user, loading,
                   listeners, intervals, jar, lastWrite, nodeEnv, login, rrPc,
                   soPc, siPc>>
    /\ resp' = NoResponse

\* the user is back on a page that shows the LogoutButton
LogoutPageLoads ==
    /\ logout.page = "login"
    /\ ~JobsPending
    /\ logout' = NoLogout
    /\ hist' = HistOther("logout:page")
    /\ UNCHANGED <<tokens, authUser, cached, events, fetches, user, loading,
                   listeners, intervals, jar, lastWrite, nodeEnv, login, rrPc,
                   soPc, siPc>>
    /\ resp' = NoResponse

\* a page load, the session mirror, sign-ins, and sign-outs made with the
\* LogoutButton
LogoutNext ==
    \/ RedirectResultResolves
    \/ RedirectResultRejects
    \/ MirrorCallback
    \/ \E i \in 1..Len(fetches) : MirrorResume(i)
    \/ \E i \in 1..Len(fetches) : FetchRejects(i)
    \/ \E i \in 1..Len(fetches) : IssueToken(i)
    \/ \E p \in Providers : SignInCall(p)
    \/ \E u \in Users : PopupResolves(u)
    \/ SignInResume
    \/ \E c \in ErrorCodes : PopupRejects(c)
    \/ handleLogout
    \/ FirebaseSignOutResolves
    \/ FirebaseSignOutRejects
    \/ SignOutResume
    \/ LogoutPostResolves
    \/ LogoutPostRejects
    \/ LogoutPageLoads

LogoutSpec == Init /\ [][LogoutNext]_vars

\* ------------------------------------------- the login page and its buttons
\* everything but the login page's own state
sessionVars == <<tokens, authUser, cached, events, fetches, user, loading,
                 listeners, intervals, jar, lastWrite, nodeEnv, logout, rrPc, soPc, siPc,
                 hist, resp>>

\* the login page of an anonymous visitor, the first callback delivered; the
\* root layout that mounts the AuthProvider is not part of these sources, so
\* the page is rendered below a provider or not
LoginInit ==
    /\ tokens = <<>>
    /\ authUser = NoUser
    /\ cached = [u \in Users |-> NoToken]
    /\ events = <<>>
    /\ fetches = <<>>
    /\ user = NoUser
    /\ loading = FALSE
    /\ \E b \in BOOLEAN :
         /\ login = LoginPage(b)
         /\ listeners = (IF b THEN 1 ELSE 0)
         /\ intervals = (IF b THEN 1 ELSE 0)
    /\ jar = NoCookie
    /\ lastWrite = SessionCookieClear
    /\ nodeEnv = "production"
    /\ soPc = NoSignOut
    /\ siPc = Idle
    /\ hist = NoHist
    /\ resp = NoResponse
    /\ rrPc = "done"
    /\ logout = NoLogout

\* (mutant) buttons of which only the clicked one is disabled
ButtonDisabledOwn(p) == login.pending = p

\* SocialLoginButtons.tsx: disabled={loading !== null}, on each button
ButtonDisabled(p) == login.pending # "null"

\* a button is clicked: handleSignIn up to `await signInFn()`, the facade verb
\* and signInWithProvider up to `await signInWithPopup(auth, provider)`
handleSignIn(p) ==
    /\ login.page = "login"
    /\ ~ButtonDisabled(p)
    /\ login' = [login EXCEPT !.pc = "popup", !.pending = p, !.provider = p,
                              !.inFlight = @ + 1,
                              !.popups = signInWithPopup(p), !.redirects = <<>>,
                              !.thrown = "", !.onSuccess = 0, !.onError = 0,
                              !.message = JsNull]
    /\ UNCHANGED sessionVars

\* the popup handshake succeeds: onSuccess -> router.push('/dashboard'), finally
handleSignInResolved ==
    /\ login.pc = "popup"
    /\ login' = [login EXCEPT !.pc = "idle", !.pending = "null",
                              !.inFlight = @ - 1,
                              !.onSuccess = 1, !.page = "dashboard"]
    /\ UNCHANGED sessionVars

\* the popup handshake fails: the catch block of signInWithProvider, the
\* rejection of the facade verb, the catch block of handleSignIn with
\* onError -> setError(message), finally
handleSignInRejected(code) ==
    /\ login.pc = "popup"
    /\ LET c == signInWithProviderCatch(login.provider, code)
           h == handleSignInCatch(c.thrown)
       IN  login' = [login EXCEPT !.pc = "idle", !.pending = "null",
                                  !.inFlight = @ - 1,
                                  !.redirects = c.redirects,
                                  !.thrown = c.thrown,
                                  !.onError = h.onError,
                                  !.message = h.message,
                                  !.error = IF h.onError = 1 THEN h.message ELSE @,
                                  !.page = IF c.redirects # <<>> THEN "provider" ELSE @]
    /\ UNCHANGED sessionVars

\* the browser comes back to the login page: a fresh page load
LoginPageLoads ==
    /\ login.page # "login"
    /\ login' = LoginPage(login.inProvider)
    /\ UNCHANGED sessionVars

LoginNext ==
    \/ \E p \in Providers : handleSignIn(p)
    \/ handleSignInResolved
    \/ \E code \in SdkErrorCodes : handleSignInRejected(code)
    \/ LoginPageLoads

LoginSpec == LoginInit /\ [][LoginNext]_vars

\* ================================================================ claims
Last(seq) == seq[Len(seq)]
AcceptedByVerifier(c) == c \in Minted /\ ~tokens[c].expired
CallerView(r) == [status |-> r.status, error |-> r.error, uid |-> r.uid,
                  message |-> r.message, redirect |-> r.redirect]
NoBearer(h) == BearerToken(h) \in {Absent, Empty}

\* C1: the protected layout renders its children only when the __session
\* cookie is present, not empty and accepted by the Verifier; in every other
\* case it redirects to /login and renders nothing.
C1_PageGate ==
    resp.route = "layout" =>
        /\ resp.rendered <=> (resp.cookie \notin {Absent, Empty}
                              /\ AcceptedByVerifier(resp.cookie))
        /\ resp.rendered => resp.redirect = "" /\ resp.verifierCalls = 1
        /\ ~resp.rendered => resp.redirect = "/login"

C1_Witness ==
    /\ resp.route = "layout"
    /\ resp.rendered
    /\ \E t \in Minted : tokens[t].expired

\* C2 (as claimed): once a signOut() that was called with a user present has
\* completed, the cookie is cleared, and every later render of a protected
\* page, until the next sign-in, redirects to /login.
C2_Original ==
    /\ [][(soPc.wasAuth /\ hist'.op = "signOut:resolved") => Cleared']_vars
    /\ [][(hist.soAuth /\ RenderProtected) => resp'.redirect = "/login"]_vars

\* C3 (as claimed): for every value of the __session cookie the page gate and
\* the request gate decide alike, whatever else the request carries.
C3_Original ==
    \A c \in Credentials, h \in Headers :
        ProtectedLayout(c).rendered <=> (GET(c, h).status = 200)

\* C3 (amended): for every value of the __session cookie the page gate and
\* the request gate decide alike, through the same verifier call with the
\* same outcome, whenever the cookie is not empty or the request carries no
\* Bearer token.
C3_GateEquivalence ==
    \A c \in Credentials, h \in Headers :
        (c \notin {Absent, Empty} \/ NoBearer(h)) =>
            LET p == ProtectedLayout(c)
                g == GET(c, h)
            IN  /\ p.rendered <=> (g.status = 200)
                /\ ~p.rendered <=> (g.status = 401)
                /\ p.redirect = "/login" <=> (g.status = 401)
                /\ p.verifierCalls = g.verifierCalls
                /\ p.logged = g.logged
                /\ p.uid = g.uid

C3_Witness ==
    /\ resp.route = "api/protected"
    /\ resp.status = 200
    /\ ProtectedLayout(resp.cookie).rendered
    /\ \E t \in Minted : tokens[t].revoked /\ ~tokens[t].expired
    /\ \E t \in Minted : tokens[t].expired /\ ~ProtectedLayout(t).rendered

\* C4: a request whose credential is the empty string or is absent is denied
\* without the Verifier being called and without a fault: 401 from the
\* request gate, a redirect to /login from the page gate, and
\* {isAuthenticated: false, user: null} from getAuthenticatedUser.
C4_DeniedOnEmpty ==
    /\ (resp.cookie \in {Absent, Empty} /\ resp.bearer \in {Absent, Empty}
        /\ resp.route \in {"layout", "api/protected", "getAuthenticatedUser"}) =>
            /\ resp.verifierCalls = 0
            /\ resp.thrown = ""
            /\ resp.uid = NoUser
            /\ ~resp.rendered /\ ~resp.isAuthenticated
            /\ resp.route = "layout" => resp.redirect = "/login"
            /\ resp.route = "api/protected" => resp.status = 401
    /\ \A c \in {Absent, Empty} :
        /\ ProtectedLayout(c).redirect = "/login"
        /\ ProtectedLayout(c).verifierCalls = 0
        /\ getAuthenticatedUser(c).verifierCalls = 0
        /\ ~getAuthenticatedUser(c).isAuthenticated
        /\ \A h \in Headers : NoBearer(h) =>
              GET(c, h).status = 401 /\ GET(c, h).verifierCalls = 0

C4_Witness ==
    /\ resp.route = "api/protected"
    /\ resp.cookie = Empty
    /\ resp.bearer = Absent
    /\ resp.status = 401
    /\ Len(tokens) > 0

\* C5: while a sign-in is followed only by passive token refreshes, each
\* delivered to the mirror in order, the cookie holds, once the mirror has
\* processed the latest of them, the token obtained for that event: the token
\* the assertion source holds then, written with the 7-day max-age.
C5_MirrorKeepsLatest ==
    (/\ hist.solo > 0
     /\ listeners > 0
     /\ events = <<>>
     /\ \A i \in 1..Len(fetches) : fetches[i].by # "mirror") =>
        /\ authUser # NoUser
        /\ user = authUser
        /\ jar.value = cached[authUser]
        /\ jar.value \in Minted
        /\ jar.maxAge = 604800

C5_Witness ==
    /\ hist.solo >= 3
    /\ hist.op = "mirror:write"
    /\ events = <<>>
    /\ fetches = <<>>
    /\ jar.value = cached[authUser]
    /\ jar.value = Len(tokens)

\* C6: the subscription callback that follows a successful sign-in sets
\* currentUser to the signed-in user and starts the token fetch whose
\* continuation writes the cookie with that non-empty token and max-age
\* 604800.
C6_SignInMirrored ==
    /\ [][((hist.op = "signIn:popup" \/ (hist.op = "signIn:resolved" /\ events # <<>>))
           /\ hist'.op \in {"mirror:getIdToken", "mirror:clear"}) =>
              /\ user' = authUser
              /\ user' # NoUser
              /\ hist'.op = "mirror:getIdToken"
              /\ Len(fetches') = Len(fetches) + 1
              /\ Last(fetches').by = "mirror"
              /\ Last(fetches').token = cached[authUser]
              /\ Last(fetches').token \in Minted]_vars
    /\ [][hist'.op = "mirror:write" =>
              \E i \in 1..Len(fetches) :
                 /\ fetches[i].by = "mirror"
                 /\ fetches' = Remove(fetches, i)
                 /\ jar'.value = fetches[i].token
                 /\ jar'.value \in Minted
                 /\ jar'.maxAge = 604800
                 /\ lastWrite' = jar']_vars

C6_Witness ==
    /\ hist.op = "mirror:write"
    /\ hist.solo = 1
    /\ user = authUser
    /\ user # NoUser
    /\ jar.value = cached[user]
    /\ jar.maxAge = 604800

\* C7: whenever the refresh timer fires while a user is present, a forced
\* token fetch getIdToken(true) is started, and when that fetch resolves the
\* cookie is rewritten with the token it fetched; no facade verb is involved.
C7_SchedulerRefresh ==
    /\ [][(hist'.op \in {"sched:getIdToken", "sched:idle"} /\ user # NoUser) =>
              /\ hist'.op = "sched:getIdToken"
              /\ Len(fetches') = Len(fetches) + 1
              /\ Last(fetches').by = "sched"
              /\ Last(fetches').forced
              /\ Last(fetches').net
              /\ Last(fetches').user = user
              /\ UNCHANGED <<jar, soPc, siPc>>]_vars
    /\ [][hist'.op = "sched:write" =>
              \E i \in 1..Len(fetches) :
                 /\ fetches[i].by = "sched"
                 /\ fetches[i].forced
                 /\ fetches' = Remove(fetches, i)
                 /\ jar'.value = fetches[i].token
                 /\ jar'.value \in Minted
                 /\ jar'.maxAge = 604800
                 /\ UNCHANGED <<soPc, siPc>>]_vars

C7_Witness ==
    /\ hist.op = "sched:write"
    /\ user # NoUser
    /\ jar.value = Len(tokens)
    /\ jar.value > 1
    /\ soPc.pc = "idle"
    /\ siPc.pc = "idle"

\* C8: signOut() leaves the cookie alone until the invalidation of the
\* assertion-source session has completed, and when it resolves the session is
\* invalidated and the cookie is cleared (empty value, max-age 0), whether or
\* not the mirror's callback for the sign-out has run.
C8_SignOutOrder ==
    /\ [][hist'.op \in {"signOut:call", "signOut:invalidated", "signOut:rejected"} =>
              UNCHANGED <<jar, lastWrite>>]_vars
    /\ [][hist'.op = "signOut:resolved" =>
              /\ soPc.pc = "resumable"
              /\ authUser = NoUser
              /\ jar' = NoCookie
              /\ lastWrite'.value = Empty
              /\ lastWrite'.maxAge = 0]_vars

C8_Witness ==
    /\ hist.op = "signOut:resolved"
    /\ events = <<NoUser>>
    /\ user # NoUser
    /\ jar = NoCookie
    /\ lastWrite = SessionCookieClear

C10_UniformDenial ==
    /\ (resp.route = "api/protected" /\ resp.verifierCalls = 1 /\ resp.logged # "") =>
          CallerView(resp) = [status |-> 401, error |-> "Invalid or expired token",
                              uid |-> NoUser, message |-> "", redirect |-> ""]
    /\ \A c1, c2 \in Credentials \ {Absent, Empty} :
          (~AcceptedByVerifier(c1) /\ ~AcceptedByVerifier(c2)) =>
              /\ CallerView(GET(c1, NullHeader)) = CallerView(GET(c2, NullHeader))
              /\ CallerView(GET(Absent, Header("Bearer", c1))) = CallerView(GET(c2, NullHeader))
              /\ GET(c1, NullHeader).error = "Invalid or expired token"

C10_Witness ==
    /\ resp.route = "api/protected"
    /\ resp.status = 401
    /\ resp.logged = "auth/id-token-expired"
    /\ GET(Malformed, NullHeader).logged = "auth/argument-error"
    /\ GET(BadSignature, NullHeader).logged = "auth/invalid-id-token"

\* C11: the protected resource endpoint called without a __session cookie and
\* without an Authorization header, or with a header that has nothing after
\* 'Bearer ', answers 401 with {error: "Missing authentication token"}; the
\* Verifier is not consulted.
C11_MissingToken ==
    /\ (resp.route = "api/protected" /\ resp.cookie = Absent
        /\ resp.bearer \in {Absent, Empty}) =>
            /\ CallerView(resp) = [status |-> 401,
                                   error |-> "Missing authentication token",
                                   uid |-> NoUser, message |-> "", redirect |-> ""]
            /\ resp.verifierCalls = 0
    /\ GET(Absent, NullHeader).error = "Missing authentication token"
    /\ GET(Absent, Header("Bearer", Empty)).error = "Missing authentication token"
    /\ GET(Absent, Header("Bearer", Empty)).status = 401

C11_Witness ==
    /\ resp.route = "api/protected"
    /\ resp.cookie = Absent
    /\ resp.bearer = Empty
    /\ resp.error = "Missing authentication token"
    /\ \E t \in Minted : AcceptedByVerifier(t)

\* C12 (as claimed): whenever the request carries a __session cookie, the
\* answer of the protected resource endpoint depends on the cookie alone; the
\* Bearer token counts only when no cookie is sent.
C12_Original ==
    \A c \in Credentials \ {Absent}, h \in Headers :
        CallerView(GET(c, h)) = CallerView(GET(c, NullHeader))

\* C12 (amended): when the __session cookie is a non-empty string the answer
\* of the protected resource endpoint is the answer to that cookie alone,
\* whatever the Authorization header carries; when the cookie is absent or
\* empty the answer is the answer to the Bearer token.
C12_CookiePrecedence ==
    /\ \A c \in Credentials, h \in Headers :
          IF c \notin {Absent, Empty}
            THEN /\ CallerView(GET(c, h)) = CallerView(GET(c, NullHeader))
                 /\ GET(c, h).logged = GET(c, NullHeader).logged
                 /\ GET(c, h).status = 200 <=> AcceptedByVerifier(c)
            ELSE /\ CallerView(GET(c, h)) = CallerView(GET(BearerToken(h), NullHeader))
                 /\ GET(c, h).logged = GET(BearerToken(h), NullHeader).logged
    /\ (resp.route = "api/protected" /\ resp.cookie \notin {Absent, Empty}) =>
          /\ resp.status = 200 <=> AcceptedByVerifier(resp.cookie)
          /\ resp.status = 200 => resp.uid = tokens[resp.cookie].uid

C12_Witness ==
    /\ resp.route = "api/protected"
    /\ resp.cookie \in Minted
    /\ ~AcceptedByVerifier(resp.cookie)
    /\ resp.bearer \in Minted
    /\ AcceptedByVerifier(resp.bearer)
    /\ resp.status = 401
    /\ resp.error = "Invalid or expired token"

\* C13 (as claimed): a token that has expired or whose session was revoked
\* after it was issued, and any malformed or badly signed credential, is
\* denied by the page gate and by the request gate.
C13_Original ==
    /\ \A c \in {Malformed, BadSignature} \cup Minted :
          (c \in Minted => tokens[c].expired \/ tokens[c].revoked) =>
              /\ ~ProtectedLayout(c).rendered
              /\ GET(c, NullHeader).status = 401
              /\ GET(Absent, Header("Bearer", c)).status = 401
    /\ (resp.cookie \in Minted /\ tokens[resp.cookie].revoked) =>
          ~resp.rendered /\ resp.status # 200

\* the message the table gives for a code, the fallback for any other code
TableMessage(code) ==
    JsString(IF code \in DOMAIN firebaseErrorMessages
               THEN firebaseErrorMessages[code] ELSE FallbackMessage)

\* strings given to getAuthErrorMessage: the codes of the SDK and a few others
CodeStrings == SdkErrorCodes \cup {"", "unknown", "constructor", "toString", "__proto__"}

\* C14: one sign-in call makes exactly one popup handshake, for its provider;
\* when that handshake fails with auth/popup-blocked it starts one redirect
\* handshake for the same provider, and after any other outcome it starts none.
C14_PopupFallback ==
    /\ login.provider # "null" =>
          /\ login.popups = <<login.provider>>
          /\ login.redirects = IF login.thrown = "auth/popup-blocked"
                                 THEN <<login.provider>> ELSE <<>>
    /\ login.pc = "popup" => login.thrown = ""
    /\ \A p \in Providers, code \in SdkErrorCodes :
          Len(signInWithProviderCatch(p, code).redirects) <= 1

C14_Witness ==
    /\ login.pc = "idle"
    /\ login.thrown = "auth/popup-blocked"
    /\ login.popups = <<"github">>
    /\ login.redirects = <<"github">>
    /\ login.page = "provider"

\* C15 (as claimed): a sign-in call that started the redirect fallback does
\* not reject to its caller and shows no inline message; a call that rejects
\* started no fallback.
C15_Original ==
    login.redirects # <<>> =>
        /\ login.thrown = ""
        /\ login.onError = 0
        /\ login.message = JsNull

\* C16: a sign-in from the buttons that fails with auth/popup-closed-by-user
\* calls neither onError nor onSuccess; one that fails with any other code
\* calls onError once, with the table's message for that code (the fallback
\* message for a code the table lacks), and does not call onSuccess.
C16_ButtonErrors ==
    (login.pc = "idle" /\ login.thrown # "") =>
        /\ login.onSuccess = 0
        /\ IF login.thrown = "auth/popup-closed-by-user"
             THEN login.onError = 0 /\ login.message = JsNull
             ELSE /\ login.onError = 1
                  /\ login.message = TableMessage(login.thrown)
                  /\ login.error = login.message

C16_Witness ==
    /\ login.pc = "idle"
    /\ login.thrown = "auth/popup-closed-by-user"
    /\ login.onError = 0
    /\ login.error = JsString("Network error. Please check your connection.")

\* C17 (as claimed): for every string, getAuthErrorMessage returns the
\* table's message when the string is a key of the table and the fallback
\* message otherwise; what it returns is always a string.
C17_Original ==
    /\ login.onError = 1 => login.message.type = "string"
    /\ \A code \in CodeStrings :
          /\ getAuthErrorMessage(code) = TableMessage(code)
          /\ getAuthErrorMessage(code).type = "string"

\* the first subscription callback has been delivered: it set the user or
\* cleared the cookie
FirstCallbackDelivered == user # NoUser \/ lastWrite # NoWrite

\* the first subscription callback has been delivered and no callback is
\* suspended at its await
CallbacksRan ==
    /\ FirstCallbackDelivered
    /\ \A i \in 1..Len(fetches) : fetches[i].by # "mirror"

\* C18 (as claimed): isLoading starts true, is false once the first
\* subscription callback has run, and once false is never true again.
C18_Original ==
    /\ [][loading' => loading]_vars
    /\ [][CallbacksRan' => ~loading']_vars

\* C19 (as claimed): once the first subscription callback has been delivered,
\* isLoading eventually becomes false, for as long as the facade stays mounted.
C19_Original == (FirstCallbackDelivered /\ listeners > 0) ~> (~loading \/ listeners = 0)

\* C20: while the facade is mounted exactly one listener and exactly one
\* refresh interval are registered, also after the current user has changed;
\* once it is unmounted none is registered, no notification is queued or
\* delivered, and no timer tick runs.
C20_Registrations ==
    /\ IF hist.unmounted
         THEN listeners = 0 /\ intervals = 0 /\ events = <<>>
         ELSE listeners = 1 /\ intervals = 1
    /\ [][/\ IF hist'.unmounted
               THEN listeners' = 0 /\ intervals' = 0 /\ events' = <<>>
               ELSE listeners' = 1 /\ intervals' = 1
          /\ hist.unmounted =>
               /\ hist'.op \notin {"mirror:getIdToken", "mirror:clear",
                                   "sched:getIdToken", "sched:idle"}
               /\ Len(fetches') <= Len(fetches)
               /\ user' = user]_vars

C20_Witness ==
    /\ hist.unmounted
    /\ user # NoUser
    /\ authUser = NoUser
    /\ Len(tokens) >= 2
    /\ listeners = 0
    /\ intervals = 0

\* C21: useAuth() called where no AuthProvider is mounted above throws
\* 'useAuth must be used within an AuthProvider' and returns nothing; called
\* below a provider it returns that provider's value and throws nothing.
C21_UseAuth ==
    LET r == useAuth(useContext(login.inProvider))
    IN  /\ ~login.inProvider =>
            /\ r.thrown = UseAuthError
            /\ r.returned = AuthContextDefault
            /\ login.renderError = UseAuthError
            /\ login.page = "error"
        /\ login.inProvider =>
            /\ r.thrown = ""
            /\ r.returned = ProviderValue
            /\ r.returned.user = user /\ r.returned.loading = loading
            /\ login.renderError = ""
            /\ login.page # "error"

C21_Witness ==
    /\ ~login.inProvider
    /\ login.renderError = UseAuthError
    /\ login.page = "error"

\* C22: POST /api/logout deletes the __session cookie and answers 200 with
\* { success: true } whatever cookie the request carried: none, an empty one,
\* one the Verifier rejects or one it accepts; the Verifier is not consulted.
C22_Logout ==
    resp.route = "api/logout" =>
        /\ resp.status = 200
        /\ resp.success
        /\ resp.deleteCookie
        /\ resp.error = "" /\ resp.redirect = "" /\ resp.thrown = ""
        /\ resp.verifierCalls = 0

C22_Witness ==
    /\ resp.route = "api/logout"
    /\ resp.cookie = Absent
    /\ resp.success /\ resp.deleteCookie

\* C23: every assignment to document.cookie names __session with path=/.
\* The mirror callback and the refresh scheduler write the token they awaited
\* with max-age=604800, SameSite=Lax, and Secure exactly when NODE_ENV is
\* 'production'; the mirror callback without a user and signOut write an
\* empty value with max-age=0.  No other step assigns the cookie.
C23_CookieAttributes ==
    [][ /\ \A i \in 1..Len(fetches) :
            (MirrorResume(i) \/ SchedResume(i)) =>
                /\ fetches[i].token \in Minted
                /\ lastWrite' = [name |-> "__session", value |-> fetches[i].token,
                                 path |-> "/", maxAge |-> 604800, sameSite |-> "Lax",
                                 secure |-> (nodeEnv = "production")]
        /\ ((MirrorCallback /\ Head(events) = NoUser) \/ SignOutResume) =>
                /\ lastWrite'.name = "__session"
                /\ lastWrite'.value = Empty
                /\ lastWrite'.path = "/"
                /\ lastWrite'.maxAge = 0
        /\ lastWrite' # lastWrite =>
                hist'.op \in {"mirror:write", "sched:write", "mirror:clear",
                              "signOut:resolved"}
      ]_vars

C23_Witness ==
    /\ hist.op = "sched:write"
    /\ nodeEnv = "production"
    /\ lastWrite.secure /\ lastWrite.sameSite = "Lax"
    /\ lastWrite.value \in Minted /\ lastWrite.value > 1
    /\ jar = lastWrite

\* C24 (as claimed): when token fetches of the mirror callback and of the
\* refresh scheduler overlap, the cookie write that lands last, here one of
\* the scheduler that leaves no token request in flight, is never that of a
\* token older than the one the cookie already holds for the same user.  (Sign-outs are left aside: no
\* signOut() has completed since the page was loaded or the user signed in.)
C24_Original ==
    [][ \A i \in 1..Len(fetches) :
          ( /\ SchedResume(i)
            /\ NetFetches' = {}
            /\ listeners > 0
            /\ hist.soDone = 0 /\ soPc.pc = "idle"
            /\ authUser = fetches[i].user /\ user = authUser
            /\ jar.value \in Minted
            /\ tokens[jar.value].uid = fetches[i].user )
          => jar'.value >= jar.value
      ]_vars

\* C25 (as claimed): once a signOut() has completed and cleared the cookie,
\* the cookie holds no token until the next sign-in: no continuation of a
\* getIdToken call made before the sign-out writes one.
C25_Original ==
    hist.soDone > 0 => jar.value \notin Minted

\* C26 (as claimed): router.push('/dashboard') is called only while the
\* cookie holds a token of the current user: by the login page's effect, and
\* by onSuccess when the sign-in verb has resolved.  (The cookie is the one
\* the page's own assignments left: no logout request of another origin has
\* deleted it.)
C26_Original ==
    [][ jar = DocumentCookie(lastWrite) =>
          /\ hist'.op = "login:push" =>
                jar.value \in Minted /\ tokens[jar.value].uid = user
          /\ SignInResume =>
                jar.value \in Minted /\ tokens[jar.value].uid = authUser
      ]_vars

\* C27: a subscription callback that reports no user sets currentUser to
\* absent and clears the cookie (empty value, max-age 0) in one step: it
\* starts no token fetch and ends without having awaited anything.
C27_SynchronousClear ==
    [][ (MirrorCallback /\ Head(events) = NoUser) =>
          /\ user' = NoUser
          /\ lastWrite'.value = Empty /\ lastWrite'.maxAge = 0
          /\ lastWrite'.name = "__session"
          /\ jar' = NoCookie
          /\ fetches' = fetches
          /\ hist'.op = "mirror:clear"
      ]_vars

C27_Witness ==
    /\ hist.op = "mirror:clear"
    /\ user = NoUser
    /\ jar = NoCookie /\ lastWrite = SessionCookieClear
    /\ Len(tokens) > 0
    /\ soPc.pc = "resumable"

\* C28: the AuthProvider's user and loading change only in a step of the
\* subscription callback (up to its await, or after it); the sign-in verbs,
\* signOut, the interval callback and the redirect-result handling leave both
\* as they are.
C28_SessionStateFrame ==
    [][ /\ (user' # user \/ loading' # loading) =>
              hist'.op \in {"mirror:getIdToken", "mirror:clear", "mirror:write"}
        /\ ( \/ \E p \in Providers : SignInCall(p)
             \/ \E u \in Users : PopupResolves(u)
             \/ \E c \in ErrorCodes : PopupRejects(c)
             \/ SignInResume
             \/ SignOutCall \/ FirebaseSignOutResolves \/ FirebaseSignOutRejects
             \/ SignOutResume
             \/ TimerTick
             \/ \E i \in 1..Len(fetches) : SchedResume(i)
             \/ RedirectResultResolves \/ RedirectResultRejects )
            => UNCHANGED <<user, loading>>
      ]_vars

C28_Witness ==
    /\ hist.op = "signOut:resolved"
    /\ authUser = NoUser
    /\ user # NoUser
    /\ ~loading
    /\ jar = NoCookie

\* C29: a subscription callback that carries the user the AuthProvider already
\* holds, with loading false, changes neither user nor loading (nor restarts
\* the interval), before its await and after it; its getIdToken() is answered
\* with the token the SDK holds for that user, and after the await it assigns
\* the cookie with that token and the attributes of every write.
C29_SilentRefresh ==
    [][ /\ (MirrorCallback /\ Head(events) = user /\ user # NoUser /\ ~loading) =>
            /\ UNCHANGED <<user, loading, intervals, jar>>
            /\ Len(fetches') = Len(fetches) + 1
            /\ Last(fetches').by = "mirror" /\ ~Last(fetches').forced
            /\ ~Last(fetches').net /\ Last(fetches').token = cached[user]
        /\ \A i \in 1..Len(fetches) :
            (MirrorResume(i) /\ fetches[i].user = user /\ ~loading) =>
                /\ UNCHANGED <<user, loading, intervals>>
                /\ lastWrite' = SessionCookieWrite(fetches[i].token)
                /\ jar' = lastWrite'
                /\ jar'.value \in Minted
                /\ tokens[jar'.value].uid = user
                /\ jar'.value = cached'[user]
      ]_vars

C29_Witness ==
    /\ hist.op = "mirror:write"
    /\ hist.solo = 2
    /\ user = authUser /\ user # NoUser
    /\ ~loading
    /\ jar.value = cached[user]
    /\ jar.value = Len(tokens) /\ Len(tokens) >= 2

\* C30: an interval callback that runs while the AuthProvider holds no user
\* starts no token fetch and assigns no cookie: requests in flight, the
\* stored cookie and the last assignment are as before, and so are user and
\* loading.
C30_IdleTick ==
    [][ (TimerTick /\ user = NoUser) =>
          /\ UNCHANGED <<fetches, jar, lastWrite, user, loading, events, cached, tokens>>
          /\ hist'.op = "sched:idle"
      ]_vars

C30_Witness ==
    /\ hist.op = "sched:idle"
    /\ user = NoUser
    /\ hist.soDone > 0
    /\ Len(tokens) > 0
    /\ fetches = <<>>
    /\ jar = NoCookie

\* C31 (as claimed): a rejected handleRedirectResult() is only logged (the
\* step changes nothing of the session, the facade or the registrations); the
\* listener is registered while the redirect result is still pending; and
\* when the first callback ends after such a failure the facade has left
\* Loading.
C31_Original ==
    /\ [][RedirectResultRejects =>
             /\ hist'.op = "redirect:logged"
             /\ UNCHANGED <<tokens, authUser, cached, events, fetches, user,
                            loading, listeners, intervals, jar, lastWrite,
                            soPc, siPc>>]_vars
    /\ [](rrPc = "pending" => listeners = 1)
    /\ [][(hist.op = "redirect:logged" /\ CallbacksRan') => ~loading']_vars

\* the token a handler hands to the Verifier for a request
VerifiedToken(r) ==
    IF r.route = "api/protected" /\ Falsy(r.cookie) THEN r.bearer ELSE r.cookie

\* what each gate answers when it denies
Denied(r) ==
    CASE r.route = "layout" -> r.redirect = "/login" /\ ~r.rendered
      [] r.route = "api/protected" -> r.status = 401 /\ r.uid = NoUser
      [] r.route = "getAuthenticatedUser" -> ~r.isAuthenticated /\ r.uid = NoUser
      [] OTHER -> FALSE

\* C32: verifyIdToken throws for no token string: it returns the decoded
\* claims when adminAuth.verifyIdToken succeeds and null when it fails; and
\* the page gate, the request gate and getAuthenticatedUser never end with
\* an error thrown: a verification that failed makes them deny.
C32_VerifierNeverRaises ==
    /\ \A c \in Credentials :
          LET a == AdminVerifyIdToken(c, FALSE)
              v == verifyIdToken(c)
          IN  /\ v.thrown = ""
              /\ a.ok => v.decoded = [ok |-> TRUE, uid |-> a.uid, email |-> a.uid]
              /\ ~a.ok => v.decoded = Null
    /\ resp.route \in {"layout", "api/protected", "getAuthenticatedUser"} =>
          /\ resp.thrown = ""
          /\ (resp.verifierCalls = 1
                 /\ ~AdminVerifyIdToken(VerifiedToken(resp), FALSE).ok) => Denied(resp)

\* the request gate denied a request whose token the verification rejected
C32_Witness ==
    /\ resp.route = "api/protected"
    /\ resp.verifierCalls = 1
    /\ resp.logged = "auth/id-token-expired"
    /\ resp.status = 401
    /\ resp.thrown = ""

\* C37: getAuthenticatedUser answers isAuthenticated = true exactly when the
\* __session cookie is present and the Verifier accepts it, and then the user
\* is the verified uid; otherwise isAuthenticated = false and user = null.
\* protectedServerAction throws 'Unauthorized' exactly when isAuthenticated
\* is false, and then it has not read the form data and returned nothing.
C37_ServerAction ==
    /\ resp.route \in {"getAuthenticatedUser", "protectedServerAction"} =>
          /\ resp.isAuthenticated <=>
                (resp.cookie # Absent /\ AcceptedByVerifier(resp.cookie))
          /\ resp.isAuthenticated =>
                resp.uid # NoUser /\ resp.uid = tokens[resp.cookie].uid
          /\ ~resp.isAuthenticated => resp.uid = NoUser
    /\ resp.route = "getAuthenticatedUser" => resp.thrown = ""
    /\ resp.route = "protectedServerAction" =>
          /\ resp.thrown = "Unauthorized" <=> ~resp.isAuthenticated
          /\ ~resp.isAuthenticated => ~resp.formRead /\ ~resp.success
          /\ resp.isAuthenticated =>
                resp.thrown = "" /\ resp.formRead /\ resp.success

\* the action refused a caller whose cookie holds an expired token
C37_Witness ==
    /\ resp.route = "protectedServerAction"
    /\ resp.cookie \in Minted
    /\ tokens[resp.cookie].expired
    /\ resp.thrown = "Unauthorized"
    /\ ~resp.formRead

\* a tick of the interval would start a forced refresh
TickWouldFetch ==
    /\ intervals > 0
    /\ user # NoUser
    /\ NoSchedFetch
    /\ Cardinality(NetFetches) < MaxFetch

\* C36: when the forced token fetch of the scheduler fails, the __session
\* cookie, the user and the loading flag are as before and the interval
\* stays registered: with a user present the next tick starts a refresh
\* again.
C36_SchedulerFailure ==
    [][\A i \in 1..Len(fetches) :
          (FetchRejects(i) /\ fetches[i].by = "sched") =>
             /\ UNCHANGED <<jar, lastWrite, user, loading, intervals, listeners>>
             /\ hist'.op = "sched:rejected"
             /\ (intervals > 0 /\ user # NoUser) => TickWouldFetch']_vars

\* a scheduler refresh failed with a user signed in and a cookie set
C36_Witness ==
    /\ hist.op = "sched:rejected"
    /\ user # NoUser
    /\ jar # NoCookie
    /\ intervals > 0
    /\ TickWouldFetch

\* C35: through the login buttons at most one sign-in is in flight; while
\* one is pending all three buttons are disabled; and the pending marker is
\* null whenever no sign-in is in flight, whatever the outcome of the last
\* one was, so that the buttons of the login page are enabled again.
C35_OneSignIn ==
    /\ login.inFlight <= 1
    /\ login.inFlight = 1 => \A p \in Providers : ButtonDisabled(p)
    /\ login.inFlight = 0 =>
          /\ login.pending = "null"
          /\ \A p \in Providers : ~ButtonDisabled(p)

\* a sign-in ended with the popup closed by the user: the buttons are enabled
C35_Witness ==
    /\ login.thrown = "auth/popup-closed-by-user"
    /\ login.inFlight = 0
    /\ login.page = "login"
    /\ login.pending = "null"
    /\ \A p \in Providers : ~ButtonDisabled(p)

\* C33: when the session invalidation inside the facade's signOut() fails,
\* signOut() ends rejected with the __session cookie as it was; a handleLogout
\* call that awaited it logs the error and ends having made neither the POST
\* to /api/logout nor the navigation to /login.
C33_SignOutFails ==
    /\ [][FirebaseSignOutRejects =>
             /\ soPc'.pc = "idle"
             /\ hist'.op = "signOut:rejected"
             /\ UNCHANGED <<jar, lastWrite>>
             /\ resp' = NoResponse
             /\ logout.pc = "signOut" =>
                   /\ logout'.logged = "signOut"
                   /\ logout'.steps = <<"signOut">>
                   /\ logout'.page = logout.page]_vars
    /\ [](logout.logged = "signOut" =>
             logout.steps = <<"signOut">> /\ logout.page = "app")

\* the LogoutButton's signOut() failed for a signed-in user: the cookie is
\* still set and the page is the one the button is on
C33_Witness ==
    /\ hist.op = "signOut:rejected"
    /\ logout.logged = "signOut"
    /\ logout.steps = <<"signOut">>
    /\ user # NoUser
    /\ jar # NoCookie
    /\ logout.page = "app"

\* C34: handleLogout takes its steps in the order signOut, POST /api/logout,
\* navigation to /login; it navigates only when neither of the two earlier
\* steps threw; and the button's loading flag is true exactly while the call
\* is in flight, so it is false after every outcome.
C34_LogoutOrder ==
    /\ logout.steps \in {<<>>, <<"signOut">>, <<"signOut", "POST">>,
                          <<"signOut", "POST", "push">>}
    /\ logout.loading <=> logout.pc # "idle"
    /\ logout.pc = "signOut" => logout.steps = <<"signOut">>
    /\ logout.pc = "POST" => logout.steps = <<"signOut", "POST">>
    /\ logout.page = "login" <=>
          (logout.pc = "idle" /\ logout.steps = <<"signOut", "POST", "push">>)
    /\ logout.page = "login" => logout.logged = ""
    /\ logout.logged # "" => logout.pc = "idle" /\ ~logout.loading

\* a logout went through: three steps, the page is /login, the flag is reset
C34_Witness ==
    /\ logout.steps = <<"signOut", "POST", "push">>
    /\ logout.page = "login"
    /\ ~logout.loading
    /\ logout.logged = ""
    /\ hist.op = "logout:push"

====
